---- MODULE Spec2Model ----
(***************************************************************************)
(* Model of the HTTP service of src/src/server.rs and src/src/crypto.rs:   *)
(* the key-value store behind a tokio RwLock with its store and fetch      *)
(* handlers, the crypto dispatcher, the health endpoint and the rejection  *)
(* handler.                                                                *)
(*                                                                         *)
(* Option<T> is a sequence of length at most one: None is <<>> and Some(x) *)
(* is <<x>>.  A String is the sequence of its Unicode scalar values, a     *)
(* body is a sequence of bytes 0..255.  Printable strings built by format! *)
(* are TLA+ strings.                                                       *)
(***************************************************************************)
EXTENDS Integers, Sequences, FiniteSets, TLC

(* ------------------------------ bounds --------------------------------- *)

\* Number of concurrently running request handlers.
NumHandlers == 3

Handlers == 1..NumHandlers
\* Path parameters: warp::path::param never yields an empty segment.
Keys == {"a", "b"}
\* Request bodies: ASCII "a", and the lone byte 0xFF, which no UTF-8 text
\* contains.
Bodies == {<<97>>, <<255>>}

(* --------------------- String::from_utf8_lossy ------------------------- *)

REPLACEMENT == 65533

safe_get(bytes, i) == IF i <= Len(bytes) THEN bytes[i] ELSE 0

IsCont(b) == b >= 128 /\ b <= 191

utf8_char_width(b) ==
    IF b < 128 THEN 1
    ELSE IF b >= 194 /\ b <= 223 THEN 2
    ELSE IF b >= 224 /\ b <= 239 THEN 3
    ELSE IF b >= 240 /\ b <= 244 THEN 4
    ELSE 0

\* Second byte of a three-byte sequence, by first byte.
Second3Ok(b, c) ==
    \/ b = 224 /\ c >= 160 /\ c <= 191
    \/ b >= 225 /\ b <= 236 /\ IsCont(c)
    \/ b = 237 /\ c >= 128 /\ c <= 159
    \/ b >= 238 /\ b <= 239 /\ IsCont(c)

\* Second byte of a four-byte sequence, by first byte.
Second4Ok(b, c) ==
    \/ b = 240 /\ c >= 144 /\ c <= 191
    \/ b >= 241 /\ b <= 243 /\ IsCont(c)
    \/ b = 244 /\ c >= 128 /\ c <= 143

\* One step of Utf8Chunks at the head of bytes: <<bytes consumed, scalar>>.
\* A broken sequence consumes its maximal valid prefix and yields U+FFFD.
DecodeOne(bytes) ==
    LET b  == bytes[1]
        w  == utf8_char_width(b)
        b2 == safe_get(bytes, 2)
        b3 == safe_get(bytes, 3)
        b4 == safe_get(bytes, 4)
    IN  IF w = 1 THEN <<1, b>>
        ELSE IF w = 2 THEN
            IF IsCont(b2) THEN <<2, (b - 192) * 64 + (b2 - 128)>>
            ELSE <<1, REPLACEMENT>>
        ELSE IF w = 3 THEN
            IF ~Second3Ok(b, b2) THEN <<1, REPLACEMENT>>
            ELSE IF ~IsCont(b3) THEN <<2, REPLACEMENT>>
            ELSE <<3, (b - 224) * 4096 + (b2 - 128) * 64 + (b3 - 128)>>
        ELSE IF w = 4 THEN
            IF ~Second4Ok(b, b2) THEN <<1, REPLACEMENT>>
            ELSE IF ~IsCont(b3) THEN <<2, REPLACEMENT>>
            ELSE IF ~IsCont(b4) THEN <<3, REPLACEMENT>>
            ELSE <<4, (b - 240) * 262144 + (b2 - 128) * 4096
                      + (b3 - 128) * 64 + (b4 - 128)>>
        ELSE <<1, REPLACEMENT>>

RECURSIVE from_utf8_lossy(_)
from_utf8_lossy(bytes) ==
    IF bytes = <<>> THEN <<>>
    ELSE LET d == DecodeOne(bytes)
         IN  <<d[2]>> \o from_utf8_lossy(SubSeq(bytes, d[1] + 1, Len(bytes)))

\* The UTF-8 bytes of one scalar value, as serde_json writes a String out.
EncodeScalar(c) ==
    IF c < 128 THEN <<c>>
    ELSE IF c < 2048 THEN <<192 + (c \div 64), 128 + (c % 64)>>
    ELSE IF c < 65536 THEN
        <<224 + (c \div 4096), 128 + ((c \div 64) % 64), 128 + (c % 64)>>
    ELSE <<240 + (c \div 262144), 128 + ((c \div 4096) % 64),
           128 + ((c \div 64) % 64), 128 + (c % 64)>>

RECURSIVE as_bytes(_)
as_bytes(text) ==
    IF text = <<>> THEN <<>>
    ELSE EncodeScalar(Head(text)) \o as_bytes(Tail(text))

(* ------------------------------ state ---------------------------------- *)

VARIABLES
    storage,    \* AppState.data: the HashMap, key -> Option<String>
    readers,    \* handlers holding a read guard of the RwLock
    writers,    \* handlers holding the write guard of the RwLock
    queue,      \* the RwLock's FIFO wait queue of <<handler, mode>>
    mutating,   \* TRUE while HashMap::insert is rewriting the table
    pc,         \* where each handler is in its function
    req,        \* each handler's arguments: Option of [kind, key, body]
    resp,       \* each handler's reply: Option of an envelope with status
    lastStore   \* history: per key, Option of the latest insert's body and String

vars == <<storage, readers, writers, queue, mutating, pc, req, resp, lastStore>>

\* The store and its lock.
kvVars == <<storage, readers, writers, queue, mutating, lastStore>>

(* ------------------------- response envelopes -------------------------- *)

OK == 200
NOT_FOUND == 404
BAD_REQUEST == 400
INTERNAL_SERVER_ERROR == 500

\* ApiResponse { success, data, error } as warp::reply::json sends it; a
\* reply that is not wrapped in with_status goes out with 200 OK.
ApiResponse(endpoint, status, success, data, error) ==
    [endpoint |-> endpoint, status |-> status, success |-> success,
     data |-> data, error |-> error]

\* handle_store_data's reply.
StoredReply(key) ==
    ApiResponse("store", OK, TRUE, <<"Data stored for key: " \o key>>, <<>>)

\* handle_get_data's reply when the key is present.
FoundReply(data) == ApiResponse("fetch", OK, TRUE, <<data>>, <<>>)

\* handle_get_data's reply when the key is absent.
NotFoundReply(key) ==
    ApiResponse("fetch", OK, FALSE, <<>>, <<"No data found for key: " \o key>>)

\* The value a racing, unsynchronised read of the table may produce.
Torn == <<-1>>

(* --------------------------- tokio RwLock ------------------------------ *)

\* A lock that lets readers in beside a writer.
CanReadBesideWriter == queue = <<>>

\* A lock that lets readers in ahead of the queued handlers.
CanReadBarging == writers = {}

\* read(): one permit of the fair semaphore; free permits exist only while
\* nobody is queued and no writer holds them all.
CanRead == writers = {} /\ queue = <<>>

\* A lock that grants the write guard while read guards are out.
CanWriteBesideReaders == writers = {} /\ queue = <<>>

\* write(): all permits.
CanWrite == writers = {} /\ readers = {} /\ queue = <<>>

\* Dropping a guard hands the freed permits to the waiters in FIFO order:
\* <<readers, writers, queue>> after the hand-off.
RECURSIVE Handoff(_, _, _)
Handoff(rs, ws, q) ==
    IF q = <<>> \/ ws # {} THEN <<rs, ws, q>>
    ELSE IF Head(q)[2] = "read" THEN Handoff(rs \cup {Head(q)[1]}, ws, Tail(q))
    ELSE IF rs = {} THEN <<rs, {Head(q)[1]}, Tail(q)>>
    ELSE <<rs, ws, q>>

(* ------------------------------ HashMap -------------------------------- *)

HashMapNew == [k \in Keys |-> <<>>]

\* An insert that keeps the entry a key already has.
HashMapInsertIfVacant(m, k, v) == IF m[k] = <<>> THEN [m EXCEPT ![k] = <<v>>] ELSE m

HashMapInsert(m, k, v) == [m EXCEPT ![k] = <<v>>]

HashMapGet(m, k) == m[k]

(* ------------------------------- Init ---------------------------------- *)

Init ==
    /\ storage = HashMapNew
    /\ readers = {}
    /\ writers = {}
    /\ queue = <<>>
    /\ mutating = FALSE
    /\ pc = [h \in Handlers |-> "idle"]
    /\ req = [h \in Handlers |-> <<>>]
    /\ resp = [h \in Handlers |-> <<>>]
    /\ lastStore = [k \in Keys |-> <<>>]

(* ------------------------- POST /data/{key} ---------------------------- *)

\* handle_store_data up to `state.data.write().await`.
StoreCall(h, key, data) ==
    /\ pc[h] = "idle"
    /\ req' = [req EXCEPT ![h] =
                 <<[kind |-> "store", key |-> key, body |-> data,
                    data_str |-> from_utf8_lossy(data)]>>]
    /\ pc' = [pc EXCEPT ![h] = "write_await"]
    /\ IF CanWrite
       THEN writers' = writers \cup {h} /\ queue' = queue
       ELSE queue' = Append(queue, <<h, "write">>) /\ writers' = writers
    /\ UNCHANGED <<storage, readers, mutating, resp, lastStore>>

\* storage.insert begins: the table is being rewritten.
StoreInsertBegin(h) ==
    /\ pc[h] = "write_await"
    /\ h \in writers
    /\ mutating' = TRUE
    /\ pc' = [pc EXCEPT ![h] = "inserting"]
    /\ UNCHANGED <<storage, readers, writers, queue, req, resp, lastStore>>

\* storage.insert completes, the guard is dropped at the end of the block
\* and the handler builds its reply.
StoreInsertEnd(h) ==
    /\ pc[h] = "inserting"
    /\ LET r == req[h][1]
           l == Handoff(readers, writers \ {h}, queue)
       IN  /\ storage' = HashMapInsert(storage, r.key, r.data_str)
           /\ lastStore' = [lastStore EXCEPT ![r.key] =
                             <<[body |-> r.body, value |-> r.data_str]>>]
           /\ readers' = l[1]
           /\ writers' = l[2]
           /\ queue' = l[3]
           /\ resp' = [resp EXCEPT ![h] = <<StoredReply(r.key)>>]
    /\ req' = [req EXCEPT ![h] = <<[kind |-> "store", key |-> req[h][1].key]>>]
    /\ mutating' = FALSE
    /\ pc' = [pc EXCEPT ![h] = "replying"]

\* A handler that holds no guard returns its reply; the task serves the
\* next request.
Return(h) ==
    /\ pc[h] = "replying"
    /\ req[h][1].kind # "fetch"
    /\ pc' = [pc EXCEPT ![h] = "idle"]
    /\ req' = [req EXCEPT ![h] = <<>>]
    /\ resp' = [resp EXCEPT ![h] = <<>>]
    /\ UNCHANGED <<storage, readers, writers, queue, mutating, lastStore>>

(* -------------------------- GET /data/{key} ---------------------------- *)

\* handle_get_data up to `state.data.read().await`.
GetCall(h, key) ==
    /\ pc[h] = "idle"
    /\ req' = [req EXCEPT ![h] = <<[kind |-> "fetch", key |-> key]>>]
    /\ pc' = [pc EXCEPT ![h] = "read_await"]
    /\ IF CanRead
       THEN readers' = readers \cup {h} /\ queue' = queue
       ELSE queue' = Append(queue, <<h, "read">>) /\ readers' = readers
    /\ UNCHANGED <<storage, writers, mutating, resp, lastStore>>

\* What storage.get(&key) sees: the entry, or anything at all when it runs
\* while an insert is rewriting the table.
Observed(key) ==
    IF mutating THEN {<<>>, <<Torn>>, HashMapGet(storage, key)}
    ELSE {HashMapGet(storage, key)}

\* The match on storage.get(&key): the reply is built under the read guard.
GetLookup(h) ==
    /\ pc[h] = "read_await"
    /\ h \in readers
    /\ \E found \in Observed(req[h][1].key) :
          resp' = [resp EXCEPT ![h] =
             IF found # <<>> THEN <<FoundReply(found[1])>>
             ELSE <<NotFoundReply(req[h][1].key)>>]
    /\ pc' = [pc EXCEPT ![h] = "replying"]
    /\ UNCHANGED <<storage, readers, writers, queue, mutating, req, lastStore>>

\* handle_get_data returns its reply: the read guard, alive to the end of
\* the function, is dropped; the task serves the next request.
GetReturn(h) ==
    /\ pc[h] = "replying"
    /\ req[h][1].kind = "fetch"
    /\ LET l == Handoff(readers \ {h}, writers, queue)
       IN  /\ readers' = l[1]
           /\ writers' = l[2]
           /\ queue' = l[3]
    /\ pc' = [pc EXCEPT ![h] = "idle"]
    /\ req' = [req EXCEPT ![h] = <<>>]
    /\ resp' = [resp EXCEPT ![h] = <<>>]
    /\ UNCHANGED <<storage, mutating, lastStore>>

(* ------------------------------ Crypto --------------------------------- *)

\* Largest `length` a crypto request names.
MaxLen == 4

\* What SystemRandom::fill may do: fail, or fill the buffer.  A filled
\* buffer is one of a few byte patterns, named by a seed.
Seeds == {0, 77, 255}
Entropy == {<<>>} \cup {<<s>> : s \in Seeds}

RandomFill(seed, len) == [i \in 1..len |-> (seed * i) % 256]

\* Result<T>: [ok |-> TRUE, val |-> T] or [ok |-> FALSE, err |-> message].
Ok(v) == [ok |-> TRUE, val |-> v]
Err(e) == [ok |-> FALSE, err |-> e]

\* Crypto::generate_random_bytes; e is the entropy source's outcome.
generate_random_bytes(e, len) ==
    IF e = <<>> THEN Err("Random generation failed: Unspecified")
    ELSE Ok(RandomFill(e[1], len))

HEX_CHARS ==
    <<"0", "1", "2", "3", "4", "5", "6", "7", "8", "9", "a", "b", "c", "d", "e", "f">>

RECURSIVE hex_encode(_)
hex_encode(bytes) ==
    IF bytes = <<>> THEN <<>>
    ELSE <<HEX_CHARS[(Head(bytes) \div 16) + 1], HEX_CHARS[(Head(bytes) % 16) + 1]>>
         \o hex_encode(Tail(bytes))

\* The alphabet of base64::engine::general_purpose::STANDARD.
BASE64_CHARS ==
    <<"A", "B", "C", "D", "E", "F", "G", "H", "I", "J", "K", "L", "M", "N", "O", "P",
      "Q", "R", "S", "T", "U", "V", "W", "X", "Y", "Z", "a", "b", "c", "d", "e", "f",
      "g", "h", "i", "j", "k", "l", "m", "n", "o", "p", "q", "r", "s", "t", "u", "v",
      "w", "x", "y", "z", "0", "1", "2", "3", "4", "5", "6", "7", "8", "9", "+", "/">>

B64(n) == BASE64_CHARS[n + 1]

\* STANDARD.encode: three bytes to four characters, the tail padded with '='.
RECURSIVE base64_encode(_)
base64_encode(bytes) ==
    IF Len(bytes) = 0 THEN <<>>
    ELSE IF Len(bytes) = 1 THEN
        <<B64(bytes[1] \div 4), B64((bytes[1] % 4) * 16), "=", "=">>
    ELSE IF Len(bytes) = 2 THEN
        <<B64(bytes[1] \div 4),
          B64((bytes[1] % 4) * 16 + (bytes[2] \div 16)),
          B64((bytes[2] % 16) * 4), "=">>
    ELSE
        <<B64(bytes[1] \div 4),
          B64((bytes[1] % 4) * 16 + (bytes[2] \div 16)),
          B64((bytes[2] % 16) * 4 + (bytes[3] \div 64)),
          B64(bytes[3] % 64)>>
        \o base64_encode(SubSeq(bytes, 4, Len(bytes)))

\* Iterator::take(n) over the characters of s.
Take(s, n) == SubSeq(s, 1, IF n < Len(s) THEN n ELSE Len(s))

\* Crypto::generate_random_hex
generate_random_hex(e, len) ==
    LET bytes == generate_random_bytes(e, len)
    IN  IF bytes.ok THEN Ok(hex_encode(bytes.val)) ELSE bytes

\* Crypto::generate_random_base64
generate_random_base64(e, len) ==
    LET bytes == generate_random_bytes(e, len)
    IN  IF bytes.ok THEN Ok(base64_encode(bytes.val)) ELSE bytes

\* Crypto::sha256_string.  The digest itself is left uninterpreted: the hex
\* digest of `data` is the term <<"sha256", data>>.
sha256_string(data) == <<"sha256", data>>

\* A token built from just enough bytes, with no truncation.
generate_token_untruncated(e, length) ==
    LET bytes == generate_random_bytes(e, (length * 3) \div 4)
    IN  IF bytes.ok THEN Ok(base64_encode(bytes.val)) ELSE bytes

\* Crypto::generate_token
generate_token(e, length) ==
    LET bytes == generate_random_bytes(e, length)
    IN  IF bytes.ok THEN Ok(Take(base64_encode(bytes.val), length)) ELSE bytes

(* --------------------------- POST /crypto ------------------------------ *)

DefaultRandomLen == 16
DefaultTokenLen == 32

unwrap_or(opt, default) == IF opt = <<>> THEN default ELSE opt[1]

\* Operation names a client may send; the last two are not operations.
Operations == {"random_hex", "random_base64", "sha256", "token", "bogus", "SHA256"}
DataFields == {<<>>, <<"hello world">>}
LengthFields == {<<>>} \cup {<<n>> : n \in 0..MaxLen}

CryptoRequest(operation, data, length) ==
    [operation |-> operation, data |-> data, length |-> length]

\* A dispatcher that matches the operation name by its lower-case form.
CryptoResultIgnoringCase(r, e) ==
    IF r.operation = "random_hex" THEN
        generate_random_hex(e, unwrap_or(r.length, DefaultRandomLen))
    ELSE IF r.operation = "random_base64" THEN
        generate_random_base64(e, unwrap_or(r.length, DefaultRandomLen))
    ELSE IF r.operation \in {"sha256", "SHA256"} THEN
        IF r.data # <<>> THEN Ok(sha256_string(r.data[1]))
        ELSE Err("No data provided for hash")
    ELSE IF r.operation = "token" THEN
        generate_token(e, unwrap_or(r.length, DefaultTokenLen))
    ELSE Err("Unknown operation: " \o r.operation)

\* The first match of handle_crypto_operation: the operation's Result.
CryptoResult(r, e) ==
    IF r.operation = "random_hex" THEN
        generate_random_hex(e, unwrap_or(r.length, DefaultRandomLen))
    ELSE IF r.operation = "random_base64" THEN
        generate_random_base64(e, unwrap_or(r.length, DefaultRandomLen))
    ELSE IF r.operation = "sha256" THEN
        IF r.data # <<>> THEN Ok(sha256_string(r.data[1]))
        ELSE Err("No data provided for hash")
    ELSE IF r.operation = "token" THEN
        generate_token(e, unwrap_or(r.length, DefaultTokenLen))
    ELSE Err("Unknown operation: " \o r.operation)

CryptoResponse(result, operation) == [result |-> result, operation |-> operation]

\* The Ok arm of the second match.
CryptoOkReply(result, operation) ==
    ApiResponse("crypto", OK, TRUE, <<CryptoResponse(result, operation)>>, <<>>)

\* An Err arm that fills the payload as well.
CryptoErrReplyWithData(e) == ApiResponse("crypto", OK, FALSE, <<"">>, <<e>>)

\* The Err arm of the second match.
CryptoErrReply(e) == ApiResponse("crypto", OK, FALSE, <<>>, <<e>>)

handle_crypto_operation(h, r, e) ==
    /\ pc[h] = "idle"
    /\ req' = [req EXCEPT ![h] = <<[kind |-> "crypto", request |-> r, entropy |-> e]>>]
    /\ LET result == CryptoResult(r, e)
       IN  resp' = [resp EXCEPT ![h] =
                      IF result.ok THEN <<CryptoOkReply(result.val, r.operation)>>
                      ELSE <<CryptoErrReply(result.err)>>]
    /\ pc' = [pc EXCEPT ![h] = "replying"]
    /\ UNCHANGED kvVars

(* ---------------------------- GET /health ------------------------------ *)

\* SystemTime::now() in seconds.
Clock == {1700000000, 1700000001}

HealthResponse(timestamp) ==
    [status |-> "healthy", timestamp |-> timestamp, version |-> "CARGO_PKG_VERSION"]

HealthReply(timestamp) ==
    ApiResponse("health", OK, TRUE, <<HealthResponse(timestamp)>>, <<>>)

health(h, timestamp) ==
    /\ pc[h] = "idle"
    /\ req' = [req EXCEPT ![h] = <<[kind |-> "health"]>>]
    /\ resp' = [resp EXCEPT ![h] = <<HealthReply(timestamp)>>]
    /\ pc' = [pc EXCEPT ![h] = "replying"]
    /\ UNCHANGED kvVars

(* ------------------------- handle_rejection ---------------------------- *)

\* The rejections the routes produce: no route matched, the JSON body of
\* POST /crypto did not deserialize, anything else.
Rejections == {"not_found", "body_deserialize", "other"}

RejectionCode(err) ==
    IF err = "not_found" THEN <<NOT_FOUND, "Not Found">>
    ELSE IF err = "body_deserialize" THEN <<BAD_REQUEST, "Invalid JSON">>
    ELSE <<INTERNAL_SERVER_ERROR, "Internal Server Error">>

RejectionReply(code, message) ==
    ApiResponse("rejection", code, FALSE, <<>>, <<message>>)

handle_rejection(h, err) ==
    /\ pc[h] = "idle"
    /\ req' = [req EXCEPT ![h] = <<[kind |-> "rejected", err |-> err]>>]
    /\ resp' = [resp EXCEPT ![h] =
                  <<RejectionReply(RejectionCode(err)[1], RejectionCode(err)[2])>>]
    /\ pc' = [pc EXCEPT ![h] = "replying"]
    /\ UNCHANGED kvVars

(* --------------------------- specifications ---------------------------- *)

\* The store under concurrent handlers.
Next ==
    \/ \E h \in Handlers, key \in Keys, data \in Bodies : StoreCall(h, key, data)
    \/ \E h \in Handlers : StoreInsertBegin(h)
    \/ \E h \in Handlers : StoreInsertEnd(h)
    \/ \E h \in Handlers : Return(h)
    \/ \E h \in Handlers, key \in Keys : GetCall(h, key)
    \/ \E h \in Handlers : GetLookup(h)
    \/ \E h \in Handlers : GetReturn(h)

Spec == Init /\ [][Next]_vars

\* Every endpoint of the server, one request at a time.
Dispatcher == CHOOSE h \in Handlers : \A g \in Handlers : h <= g

\* Bodies of one request at a time: also the empty body, U+00E9 in two
\* bytes, a valid byte before an invalid one and a three-byte sequence cut
\* short.
ApiBodies == Bodies \cup {<<>>, <<195, 169>>, <<97, 255>>, <<226, 130>>}

ApiNext ==
    \/ \E key \in Keys, data \in ApiBodies : StoreCall(Dispatcher, key, data)
    \/ StoreInsertBegin(Dispatcher)
    \/ StoreInsertEnd(Dispatcher)
    \/ Return(Dispatcher)
    \/ \E key \in Keys : GetCall(Dispatcher, key)
    \/ GetLookup(Dispatcher)
    \/ GetReturn(Dispatcher)
    \/ \E operation \in Operations, data \in DataFields, length \in LengthFields,
          e \in Entropy :
          handle_crypto_operation(Dispatcher, CryptoRequest(operation, data, length), e)
    \/ \E timestamp \in Clock : health(Dispatcher, timestamp)
    \/ \E err \in Rejections : handle_rejection(Dispatcher, err)

ApiSpec == Init /\ [][ApiNext]_vars

\* The store under concurrent handlers, each of which tokio runs whenever it
\* is ready: a handler that can take its next step eventually takes it.  No
\* fairness is asked of the arrival of requests.
Step(h) ==
    \/ StoreInsertBegin(h)
    \/ StoreInsertEnd(h)
    \/ Return(h)
    \/ GetLookup(h)
    \/ GetReturn(h)

\* Whether a handler gets the lock depends on neither key nor body: the
\* fair specification draws both from singletons.
FairKeys == {"a"}
FairBodies == {<<255>>}

FairNext ==
    \/ \E h \in Handlers, key \in FairKeys, data \in FairBodies : StoreCall(h, key, data)
    \/ \E h \in Handlers : StoreInsertBegin(h)
    \/ \E h \in Handlers : StoreInsertEnd(h)
    \/ \E h \in Handlers : Return(h)
    \/ \E h \in Handlers, key \in FairKeys : GetCall(h, key)
    \/ \E h \in Handlers : GetLookup(h)
    \/ \E h \in Handlers : GetReturn(h)

FairSpec == Init /\ [][FairNext]_vars /\ \A h \in Handlers : WF_vars(Step(h))

(* ---------------------------- properties ------------------------------- *)

\* Handler h has run storage.get and still holds its read guard.
Fetching(h) == pc[h] = "replying" /\ req[h][1].kind = "fetch"

\* Handler h's store has been issued and not yet inserted.
Storing(h) == pc[h] \in {"write_await", "inserting"}

\* Handler h has handled a POST /crypto.
Crypto(h) == pc[h] = "replying" /\ req[h][1].kind = "crypto"

\* C1: a store of body v under k followed by a fetch of k, with no store to
\* k in between, returns exactly the bytes v, for every body v, valid UTF-8
\* or not.
C1_RoundTripExact ==
    \A h \in Handlers :
        Fetching(h) /\ lastStore[req[h][1].key] # <<>> =>
            /\ resp[h][1].success
            /\ as_bytes(resp[h][1].data[1]) = lastStore[req[h][1].key][1].body

\* C2: a fetch of k returns success with the value of the most recent store
\* to k when there was one, whatever happened to other keys since, and the
\* failure "No data found for key: <k>" with no payload when there was none.
\* The value of a store is the String its handler inserts.
C2_LastWriteWins ==
    \A h \in Handlers :
        Fetching(h) =>
            LET k == req[h][1].key
                r == resp[h][1]
            IN  IF lastStore[k] = <<>>
                THEN /\ ~r.success
                     /\ r.data = <<>>
                     /\ r.error = <<"No data found for key: " \o k>>
                ELSE /\ r.success
                     /\ r.data = <<lastStore[k][1].value>>
                     /\ r.error = <<>>

C2_Witness ==
    \E h \in Handlers :
        /\ Fetching(h)
        /\ req[h][1].key = "a"
        /\ resp[h][1].success
        /\ lastStore["a"] # <<>>
        /\ lastStore["b"] # <<>>
        /\ lastStore["a"][1].body # lastStore["b"][1].body
        /\ \E g \in Handlers : Storing(g) /\ req[g][1].key = "a"

\* C3: with stores racing on one key, every change of the key's entry
\* installs the whole value of one of the stores then in progress, and a
\* fetch sees the entry as it stands, never a partial write.
C3_NoPartialWrite ==
    /\ [][\A k \in Keys :
            storage'[k] # storage[k] =>
                \E h \in Handlers :
                    /\ Storing(h)
                    /\ req[h][1].key = k
                    /\ storage'[k] = <<req[h][1].data_str>>]_vars
    /\ [](\A h \in Handlers :
            Fetching(h) =>
                /\ resp[h][1].data # <<Torn>>
                /\ resp[h][1].data = storage[req[h][1].key])

C3_Witness ==
    \E h1, h2, h3 \in Handlers :
        /\ pc[h1] = "inserting"
        /\ pc[h2] = "write_await"
        /\ req[h1][1].key = req[h2][1].key
        /\ req[h1][1].data_str # req[h2][1].data_str
        /\ pc[h3] = "read_await"
        /\ req[h3][1].kind = "fetch"
        /\ req[h3][1].key = req[h1][1].key
        /\ storage[req[h1][1].key] # <<>>

\* C4: the lock is held by at most one writer and no reader, or by readers
\* and no writer; the map is rewritten only by the handler that holds the
\* write guard and read only by a handler that holds a guard.
C4_ReadersOrWriter ==
    /\ Cardinality(writers) <= 1
    /\ writers = {} \/ readers = {}
    /\ mutating => \E h \in writers : pc[h] = "inserting"
    /\ \A h \in Handlers : pc[h] = "inserting" => h \in writers
    /\ \A h \in Handlers : Fetching(h) => h \in readers \cup writers

C4_Witness ==
    /\ Cardinality(readers) >= 2
    /\ \E i \in 1..Len(queue) : queue[i][2] = "write"

\* C5: a fetch of an absent key answers with the failure envelope and the
\* status 404.
C5_NotFoundStatus ==
    \A h \in Handlers :
        Fetching(h) /\ ~resp[h][1].success => resp[h][1].status = NOT_FOUND

\* C6: a failed POST /crypto answers 500 when the entropy source failed and
\* 400 when the request was at fault, never 2xx.
C6_CryptoFailureStatus ==
    \A h \in Handlers :
        Crypto(h) /\ ~resp[h][1].success =>
            resp[h][1].status =
                IF resp[h][1].error = <<"Random generation failed: Unspecified">>
                THEN INTERNAL_SERVER_ERROR
                ELSE BAD_REQUEST

\* C7: in every envelope any handler produces, success is true exactly when
\* the payload is present and false exactly when the error is present.
C7_EnvelopeShape ==
    \A h \in Handlers :
        resp[h] # <<>> =>
            /\ resp[h][1].success <=> resp[h][1].data # <<>>
            /\ ~resp[h][1].success <=> resp[h][1].error # <<>>

C7_Witness ==
    \E h \in Handlers :
        /\ Crypto(h)
        /\ req[h][1].request.operation = "random_hex"
        /\ req[h][1].entropy = <<>>
        /\ ~resp[h][1].success

Recognized == {"random_hex", "random_base64", "sha256", "token"}

\* C8: the dispatcher accepts exactly random_hex, random_base64, sha256 and
\* token.  Each of them, given data for sha256 and a working entropy source
\* for the others, succeeds and echoes the operation; sha256 without data
\* fails with "No data provided for hash"; any other name fails with
\* "Unknown operation: <name>" and no payload.
C8_DispatchTable ==
    \A h \in Handlers :
        Crypto(h) =>
            LET r == req[h][1].request
                e == req[h][1].entropy
                a == resp[h][1]
            IN  /\ r.operation \in Recognized \ {"sha256"} /\ e # <<>> =>
                    a.success /\ a.data[1].operation = r.operation
                /\ r.operation = "sha256" /\ r.data # <<>> =>
                    a.success /\ a.data[1].operation = r.operation
                /\ r.operation = "sha256" /\ r.data = <<>> =>
                    /\ ~a.success
                    /\ a.data = <<>>
                    /\ a.error = <<"No data provided for hash">>
                /\ r.operation \notin Recognized =>
                    /\ ~a.success
                    /\ a.data = <<>>
                    /\ a.error = <<"Unknown operation: " \o r.operation>>

C8_Witness ==
    \E h \in Handlers :
        /\ Crypto(h)
        /\ req[h][1].request.operation = "SHA256"
        /\ req[h][1].request.data # <<>>
        /\ ~resp[h][1].success

\* C9: with a working entropy source a token of length n is the first n
\* characters of the padded base64 of the n random bytes; that encoding has
\* 4 * ceil(n / 3) characters, so the token has exactly n; without a length
\* the token has 32 characters.
C9_TokenLength ==
    \A h \in Handlers :
        Crypto(h) /\ req[h][1].request.operation = "token" /\ req[h][1].entropy # <<>> =>
            LET length == req[h][1].request.length
                n == IF length = <<>> THEN 32 ELSE length[1]
                bytes == RandomFill(req[h][1].entropy[1], n)
                a == resp[h][1]
            IN  /\ a.success
                /\ Len(base64_encode(bytes)) = 4 * ((n + 2) \div 3)
                /\ a.data[1].result = SubSeq(base64_encode(bytes), 1, n)
                /\ Len(a.data[1].result) = n

C9_Witness ==
    \E h \in Handlers :
        /\ Crypto(h)
        /\ req[h][1].request.operation = "token"
        /\ req[h][1].request.length = <<>>
        /\ resp[h][1].success
        /\ Len(resp[h][1].data[1].result) = 32

\* C10: under a fair lock every handler that asks for access gets it, and
\* every handler that has started returns its reply and gives the lock up;
\* a writer is not held off for ever by readers.
C10_EveryHandlerReturns ==
    \A h \in Handlers :
        /\ (pc[h] = "write_await") ~> (h \in writers)
        /\ (pc[h] = "read_await") ~> (h \in readers)
        /\ (pc[h] # "idle") ~> (resp[h] # <<>>)
        /\ (resp[h] # <<>>) ~> (pc[h] = "idle" /\ h \notin readers \cup writers)

C10_Witness ==
    \E h \in Handlers :
        /\ pc[h] = "write_await"
        /\ h \notin writers
        /\ Cardinality(readers) >= 2

====
